---- MODULE Spec2Model ----
(***************************************************************************)
(* A model of prepro.py (neuraltalk2): the batch job that turns a list of  *)
(* {file_path, captions} records into the label arrays, the span index and *)
(* the vocabulary written to the hdf5 and json outputs.                    *)
(*                                                                         *)
(* Python indexes from 0 and TLA+ sequences from 1: imgs[1] is the first   *)
(* record, a row's column k of the code is column k+1 here, and the code's *)
(* label_start_ix[0] is label_start_ix[1].  The VALUES stored in           *)
(* label_start_ix / label_end_ix and in wtoi / itow are the code's own     *)
(* (they are 1-indexed in the code as well).                               *)
(*                                                                         *)
(* A word is a sequence of characters; a raw caption is the sequence of    *)
(* its whitespace-separated chunks.                                        *)
(***************************************************************************)
EXTENDS Integers, Sequences, FiniteSets, TLC

VARIABLES imgs, params, pc, vocab, itow, wtoi, L, label_start_ix,
          label_end_ix, label_length, h5, json, err

vars == <<imgs, params, pc, vocab, itow, wtoi, L, label_start_ix,
          label_end_ix, label_length, h5, json, err>>

(* ------------------------------ bounds -------------------------------- *)

\* records in the input json
MaxImgs == 2
\* captions in the whole input json
MaxCaptions == 3
\* whitespace-separated chunks in the whole input json
MaxTokens == 3
\* largest --word_count_threshold
MaxThr == 1
\* largest --max_length
MaxLength == 2
\* records in the input json, where the splits are what is looked at
MaxSplitImgs == 3

(* ------------------------------ helpers ------------------------------- *)

Range(s) == {s[k] : k \in DOMAIN s}

Min(a, b) == IF a < b THEN a ELSE b

RECURSIVE SumSeq(_)
SumSeq(s) == IF s = <<>> THEN 0 ELSE Head(s) + SumSeq(Tail(s))

RECURSIVE Concat(_)
\* the concatenation of a sequence of sequences
Concat(ss) == IF ss = <<>> THEN <<>> ELSE Head(ss) \o Concat(Tail(ss))

\* dict.get(k, d)
Get(d, k, default) == IF k \in DOMAIN d THEN d[k] ELSE default

\* d[k] = v
Put(d, k, v) == [x \in (DOMAIN d) \cup {k} |-> IF x = k THEN v ELSE d[x]]

\* every order a dict may iterate a set of keys in
Orderings(S) ==
    {f \in [1..Cardinality(S) -> S] : \A i, j \in DOMAIN f : i # j => f[i] # f[j]}

(* ------------------------------ the input ----------------------------- *)

\* the chunks a raw caption is made of
RawWords == { <<"a">>, <<"U", "N", "K">>, <<"!">> }

\* the sequences of k naturals that sum to n
Compositions(n, k) == {c \in [1..k -> 0..n] : SumSeq(c) = n}

RECURSIVE Chunk(_, _)
\* s cut into consecutive pieces of the lengths lens
Chunk(s, lens) ==
    IF lens = <<>> THEN <<>>
    ELSE <<SubSeq(s, 1, Head(lens))>>
         \o Chunk(SubSeq(s, Head(lens) + 1, Len(s)), Tail(lens))

\* a record of the input json, before any field is added to it
Record(captions) ==
    [captions |-> captions, processed_tokens |-> <<>>,
     final_captions |-> <<>>, split |-> "none"]

\* the input json with the chunks ws, cut into captions of the lengths capLens,
\* given to records holding imgCaps captions each
Corpus(ws, capLens, imgCaps) ==
    LET caps == Chunk(ws, capLens)
        recs == Chunk(caps, imgCaps)
    IN  [i \in DOMAIN recs |-> Record(recs[i])]

\* every input json of at most nImgs records, nCaps captions and nToks chunks,
\* the chunks taken from words
Corpora(nImgs, nCaps, nToks, words) ==
    UNION { UNION { UNION {
        { Corpus(ws, cl, ic) :
            ws \in [1..T -> words], cl \in Compositions(T, M),
            ic \in Compositions(M, N) }
        : T \in 0..nToks } : M \in 0..nCaps } : N \in 0..nImgs }

(* --------------------------- prepro_captions -------------------------- *)

\* str.lower(), on one character
Lower(c) ==
    CASE c = "U" -> "u"
      [] c = "N" -> "n"
      [] c = "K" -> "k"
      [] OTHER -> c

\* string.punctuation
IsPunctuation(c) == c \in {"!", ".", ","}

\* str(s).lower().translate(None, string.punctuation).strip().split()
Tokenize(s) ==
    LET lowered == [i \in DOMAIN s |-> [k \in DOMAIN s[i] |-> Lower(s[i][k])]]
        deleted == [i \in DOMAIN s |->
                      SelectSeq(lowered[i], LAMBDA c : ~IsPunctuation(c))]
    IN  SelectSeq(deleted, LAMBDA w : w # <<>>)

prepro_captions(ims) ==
    [i \in DOMAIN ims |->
        [ims[i] EXCEPT !.processed_tokens =
            [j \in DOMAIN ims[i].captions |-> Tokenize(ims[i].captions[j])]]]

(* ------------------------------ build_vocab --------------------------- *)

\* the special token rare words are mapped to
UNK == <<"U", "N", "K">>

\* every txt of every img, in corpus-then-caption order
AllTexts(ims, field) == Concat([i \in DOMAIN ims |-> ims[i][field]])

RECURSIVE CountWords(_, _)
\* counts[w] = counts.get(w, 0) + 1, for every w of tokens in turn
CountWords(tokens, counts) ==
    IF tokens = <<>> THEN counts
    ELSE CountWords(Tail(tokens),
                    Put(counts, Head(tokens), Get(counts, Head(tokens), 0) + 1))

\* the dict counts of build_vocab once its first loop has run
WordCounts(ims) == CountWords(Concat(AllTexts(ims, "processed_tokens")), <<>>)

\* bad_words = [w for w,n in counts.iteritems() if n <= count_thr]
BadWords(counts, count_thr) == {w \in DOMAIN counts : counts[w] <= count_thr}

\* KeptWords, were the comparison n >= count_thr
KeptWordsAtLeast(counts, count_thr) == {w \in DOMAIN counts : counts[w] >= count_thr}

\* vocab = [w for w,n in counts.iteritems() if n > count_thr], as a set
KeptWords(counts, count_thr) == {w \in DOMAIN counts : counts[w] > count_thr}

RECURSIVE SumCounts(_, _)
\* sum(counts[w] for w in words)
SumCounts(counts, words) ==
    IF words = {} THEN 0
    ELSE LET w == CHOOSE x \in words : TRUE
         IN  counts[w] + SumCounts(counts, words \ {w})

\* bad_count = sum(counts[w] for w in bad_words)
BadCount(counts, count_thr) == SumCounts(counts, BadWords(counts, count_thr))

\* the vocab build_vocab returns when the dict iterates the kept words as order
Vocabulary(order, counts, count_thr) ==
    IF BadCount(counts, count_thr) > 0 THEN Append(order, UNK) ELSE order

\* FinalCaption, were the comparison counts.get(w,0) >= count_thr
FinalCaptionAtLeast(txt, counts, count_thr) ==
    [k \in DOMAIN txt |->
        IF Get(counts, txt[k], 0) >= count_thr THEN txt[k] ELSE UNK]

\* caption = [w if counts.get(w,0) > count_thr else 'UNK' for w in txt]
FinalCaption(txt, counts, count_thr) ==
    [k \in DOMAIN txt |->
        IF Get(counts, txt[k], 0) > count_thr THEN txt[k] ELSE UNK]

\* imgs once the last loop of build_vocab has added final_captions
WithFinalCaptions(ims, counts, count_thr) ==
    [i \in DOMAIN ims |->
        [ims[i] EXCEPT !.final_captions =
            [j \in DOMAIN ims[i].processed_tokens |->
                FinalCaption(ims[i].processed_tokens[j], counts, count_thr)]]]

\* the statistics build_vocab prints divide by len(counts) and by total_words
StatsDivideByZero(counts) == Cardinality(DOMAIN counts) = 0

(* ---------------------------- the two tables -------------------------- *)

\* enumerate(vocab): the pairs (i, w), i from 0
Enumerate(voc) == {<<i, voc[i + 1]>> : i \in 0..(Len(voc) - 1)}

\* a dict comprehension over enumerate(vocab): a later pair overwrites an
\* earlier one with the same key
DictOf(pairs) ==
    [k \in {p[1] : p \in pairs} |->
        LET last == CHOOSE p \in pairs :
                       p[1] = k /\ \A q \in pairs : q[1] = k => q[3] <= p[3]
        IN  last[2]]

\* itow = {i+1:w for i,w in enumerate(vocab)}
IxToWord(voc) == DictOf({<<p[1] + 1, p[2], p[1]>> : p \in Enumerate(voc)})

\* WordToIx, were the ids those of enumerate: {w:i for i,w in enumerate(vocab)}
WordToIxFromZero(voc) == DictOf({<<p[2], p[1], p[1]>> : p \in Enumerate(voc)})

\* wtoi = {w:i+1 for i,w in enumerate(vocab)}
WordToIx(voc) == DictOf({<<p[2], p[1] + 1, p[1]>> : p \in Enumerate(voc)})

(* ----------------------------- assign_splits -------------------------- *)

\* SplitOf, were the comparisons i <= num_val and i <= num_val + num_test
SplitOfInclusive(i, num_val, num_test) ==
    IF i <= num_val THEN "val"
    ELSE IF i <= num_val + num_test THEN "test"
    ELSE "train"

\* the split of the record at enumerate() index i
SplitOf(i, num_val, num_test) ==
    IF i < num_val THEN "val"
    ELSE IF i < num_val + num_test THEN "test"
    ELSE "train"

assign_splits(ims, num_val, num_test) ==
    [p \in DOMAIN ims |->
        [ims[p] EXCEPT !.split = SplitOf(p - 1, num_val, num_test)]]

(* ---------------------------- encode_captions ------------------------- *)

\* a caption's word ids are looked up for the columns below max_length only
LookupFails(s, max_length, w2i) ==
    \E k \in DOMAIN s : k - 1 < max_length /\ s[k] \notin DOMAIN w2i

\* EncodeRow, were the store Li[j,k+1] = wtoi[w]
EncodeRowShifted(s, max_length, w2i) ==
    [c \in 1..max_length |-> IF 1 < c /\ c - 1 <= Len(s) THEN w2i[s[c - 1]] ELSE 0]

\* one row of Li: zeros, then Li[j,k] = wtoi[w] for every k < max_length
EncodeRow(s, max_length, w2i) ==
    [c \in 1..max_length |-> IF c <= Len(s) THEN w2i[s[c]] ELSE 0]

\* RowLength, were the length recorded as len(s)
RowLengthUnclamped(s, max_length) == Len(s)

\* label_length[caption_counter] = min(max_length, len(s))
RowLength(s, max_length) == Min(max_length, Len(s))

\* caption_counter += 1, once per caption
NextCaptionCounter(caption_counter, n) == caption_counter + n

\* label_start_ix[i] = counter
StartIx(counter) == counter

\* EndIx, were the pointer exclusive: counter + n
EndIxExclusive(counter, n) == counter + n

\* label_end_ix[i] = counter + n - 1
EndIx(counter, n) == counter + n - 1

\* SomeCaptionHadNoWords, were the last assertion missing
NoWordsUnchecked(lengths) == FALSE

\* the negation of np.all(label_length > 0)
SomeCaptionHadNoWords(lengths) == \E r \in DOMAIN lengths : ~(lengths[r] > 0)

RECURSIVE EncodeLoop(_, _, _, _, _)
\* the loop over imgs from record i on; st holds the locals of encode_captions
EncodeLoop(ims, i, st, max_length, w2i) ==
    IF i > Len(ims) THEN st
    ELSE
      LET caps == ims[i].final_captions
          n == Len(caps)
      IN  IF n = 0
            THEN [st EXCEPT !.err = "AssertionError: some image has no captions"]
          ELSE IF \E j \in DOMAIN caps : LookupFails(caps[j], max_length, w2i)
            THEN [st EXCEPT !.err = "KeyError"]
          ELSE
            EncodeLoop(ims, i + 1,
              [st EXCEPT
                 !.label_length =
                     [r \in DOMAIN st.label_length |->
                        IF st.caption_counter < r /\ r <= st.caption_counter + n
                          THEN RowLength(caps[r - st.caption_counter], max_length)
                          ELSE st.label_length[r]],
                 !.caption_counter = NextCaptionCounter(st.caption_counter, n),
                 !.label_arrays = Append(st.label_arrays,
                     [j \in DOMAIN caps |-> EncodeRow(caps[j], max_length, w2i)]),
                 !.label_start_ix = Append(st.label_start_ix, StartIx(st.counter)),
                 !.label_end_ix = Append(st.label_end_ix, EndIx(st.counter, n)),
                 !.counter = st.counter + n],
              max_length, w2i)

\* the locals of encode_captions when it returns, or the error it raises
encode_captions(ims, max_length, w2i) ==
    LET M == SumSeq([i \in DOMAIN ims |-> Len(ims[i].final_captions)])
        st0 == [label_arrays |-> <<>>, label_start_ix |-> <<>>,
                label_end_ix |-> <<>>, label_length |-> [r \in 1..M |-> 0],
                caption_counter |-> 0, counter |-> 1, err |-> "", L |-> <<>>]
        st == EncodeLoop(ims, 1, st0, max_length, w2i)
        rows == Concat(st.label_arrays)
    IN  IF st.err # "" THEN st
        ELSE IF st.label_arrays = <<>>
          THEN [st EXCEPT !.err = "ValueError: need at least one array to concatenate"]
        ELSE IF Len(rows) # M
          THEN [st EXCEPT !.err = "AssertionError: lengths don't match"]
        ELSE IF SomeCaptionHadNoWords(st.label_length)
          THEN [st EXCEPT !.err = "AssertionError: some caption had no words"]
        ELSE [st EXCEPT !.L = rows]

(* --------------------------------- main ------------------------------- *)

\* every order shuffle(imgs) may leave the records in
Shuffles(ims) ==
    {[i \in DOMAIN ims |-> ims[perm[i]]] : perm \in Orderings(DOMAIN ims)}

NoFile == [file |-> "absent", datasets |-> {}, images |-> 0]

\* the state main starts in, for an input json and parsed arguments
Start(corpus, args) ==
    /\ imgs = corpus
    /\ params = args
    /\ pc = "shuffle"
    /\ vocab = <<>>
    /\ itow = <<>>
    /\ wtoi = <<>>
    /\ L = <<>>
    /\ label_start_ix = <<>>
    /\ label_end_ix = <<>>
    /\ label_length = <<>>
    /\ h5 = NoFile
    /\ json = "absent"
    /\ err = ""

\* an uncaught exception ends the run
Raise(e) ==
    /\ pc' = "failed"
    /\ err' = e

\* imgs = json.load(...); seed(123); shuffle(imgs)
Shuffle ==
    /\ pc = "shuffle"
    /\ imgs' \in Shuffles(imgs)
    /\ pc' = "prepro_captions"
    /\ UNCHANGED <<params, vocab, itow, wtoi, L, label_start_ix, label_end_ix,
                   label_length, h5, json, err>>

\* prepro_captions(imgs)
PreproCaptions ==
    /\ pc = "prepro_captions"
    /\ imgs' = prepro_captions(imgs)
    /\ pc' = "build_vocab"
    /\ UNCHANGED <<params, vocab, itow, wtoi, L, label_start_ix, label_end_ix,
                   label_length, h5, json, err>>

\* vocab = build_vocab(imgs, params), then the two tables
BuildVocab ==
    /\ pc = "build_vocab"
    /\ LET counts == WordCounts(imgs)
           count_thr == params.word_count_threshold
       IN  IF StatsDivideByZero(counts)
             THEN /\ Raise("ZeroDivisionError")
                  /\ UNCHANGED <<imgs, vocab, itow, wtoi>>
             ELSE \E order \in Orderings(KeptWords(counts, count_thr)) :
                    /\ vocab' = Vocabulary(order, counts, count_thr)
                    /\ imgs' = WithFinalCaptions(imgs, counts, count_thr)
                    /\ itow' = IxToWord(vocab')
                    /\ wtoi' = WordToIx(vocab')
                    /\ pc' = "assign_splits"
                    /\ err' = err
    /\ UNCHANGED <<params, L, label_start_ix, label_end_ix, label_length, h5, json>>

\* assign_splits(imgs, params)
AssignSplits ==
    /\ pc = "assign_splits"
    /\ imgs' = assign_splits(imgs, params.num_val, params.num_test)
    /\ pc' = "encode_captions"
    /\ UNCHANGED <<params, vocab, itow, wtoi, L, label_start_ix, label_end_ix,
                   label_length, h5, json, err>>

\* L, label_start_ix, label_end_ix, label_length = encode_captions(imgs, params, wtoi)
EncodeCaptions ==
    /\ pc = "encode_captions"
    /\ LET r == encode_captions(imgs, params.max_length, wtoi)
       IN  IF r.err # ""
             THEN /\ Raise(r.err)
                  /\ UNCHANGED <<L, label_start_ix, label_end_ix, label_length>>
             ELSE /\ L' = r.L
                  /\ label_start_ix' = r.label_start_ix
                  /\ label_end_ix' = r.label_end_ix
                  /\ label_length' = r.label_length
                  /\ pc' = "create_h5"
                  /\ err' = err
    /\ UNCHANGED <<imgs, params, vocab, itow, wtoi, h5, json>>

\* f = h5py.File(output_h5, "w") and the five create_dataset calls
CreateH5 ==
    /\ pc = "create_h5"
    /\ h5' = [file |-> "open",
              datasets |-> {"labels", "label_start_ix", "label_end_ix",
                            "label_length", "images"},
              images |-> 0]
    /\ pc' = "images"
    /\ UNCHANGED <<imgs, params, vocab, itow, wtoi, L, label_start_ix,
                   label_end_ix, label_length, json, err>>

\* one pass of the image loop: the image is read, resized and stored
WriteImage ==
    /\ pc = "images"
    /\ h5.images < Len(imgs)
    /\ h5' = [h5 EXCEPT !.images = @ + 1]
    /\ UNCHANGED <<imgs, params, pc, vocab, itow, wtoi, L, label_start_ix,
                   label_end_ix, label_length, json, err>>

\* one pass of the image loop: imread or imresize raises
ImageError ==
    /\ pc = "images"
    /\ h5.images < Len(imgs)
    /\ Raise("IOError: image cannot be read or resized")
    /\ UNCHANGED <<imgs, params, vocab, itow, wtoi, L, label_start_ix,
                   label_end_ix, label_length, h5, json>>

\* f.close(), once the loop is over
CloseH5 ==
    /\ pc = "images"
    /\ h5.images = Len(imgs)
    /\ h5' = [h5 EXCEPT !.file = "closed"]
    /\ pc' = "write_json"
    /\ UNCHANGED <<imgs, params, vocab, itow, wtoi, L, label_start_ix,
                   label_end_ix, label_length, json, err>>

\* json.dump(out, open(output_json, 'w'))
WriteJson ==
    /\ pc = "write_json"
    /\ json' = [ix_to_word |-> itow,
                images |-> [i \in DOMAIN imgs |-> imgs[i].split]]
    /\ pc' = "done"
    /\ UNCHANGED <<imgs, params, vocab, itow, wtoi, L, label_start_ix,
                   label_end_ix, label_length, h5, err>>

Next ==
    \/ Shuffle
    \/ PreproCaptions
    \/ BuildVocab
    \/ AssignSplits
    \/ EncodeCaptions
    \/ CreateH5
    \/ WriteImage
    \/ ImageError
    \/ CloseH5
    \/ WriteJson

\* the parsed arguments
Params(thr, len, val, test) ==
    [word_count_threshold |-> thr, max_length |-> len,
     num_val |-> val, num_test |-> test]

\* inputs that vary the words and the threshold
InitVocab ==
    \E corpus \in Corpora(MaxImgs, MaxImgs, MaxTokens, RawWords) :
    \E thr \in (-1)..MaxThr :
        Start(corpus, Params(thr, MaxLength, 0, 0))

\* inputs that vary the number and the length of the captions, and max_length
InitEncode ==
    \E corpus \in Corpora(MaxImgs, MaxCaptions, MaxTokens, {<<"a">>, <<"U", "N", "K">>}) :
    \E len \in 0..MaxLength :
        Start(corpus, Params(0, len, 0, 0))

\* inputs that vary the number of records and the split sizes
InitSplits ==
    \E corpus \in Corpora(MaxSplitImgs, MaxSplitImgs, MaxSplitImgs, {<<"a">>}) :
    \E val \in 0..(MaxSplitImgs + 1), test \in 0..(MaxSplitImgs + 1) :
        Start(corpus, Params(0, MaxLength, val, test))

SpecVocab == InitVocab /\ [][Next]_vars

SpecEncode == InitEncode /\ [][Next]_vars

SpecSplits == InitSplits /\ [][Next]_vars

(* ------------------------------ properties ---------------------------- *)

\* build_vocab has returned
VocabReturned ==
    \/ pc \in {"assign_splits", "encode_captions", "create_h5", "images",
               "write_json", "done"}
    \/ pc = "failed" /\ err # "ZeroDivisionError"

\* encode_captions has returned
EncodeReturned ==
    \/ pc \in {"create_h5", "images", "write_json", "done"}
    \/ pc = "failed" /\ h5.file # "absent"

\* the words of the tokenized captions
TokenWords ==
    UNION {UNION {Range(imgs[i].processed_tokens[j]) :
                    j \in DOMAIN imgs[i].processed_tokens} : i \in DOMAIN imgs}

\* how often w occurs in the tokenized captions of the whole corpus
Occurrences(w) ==
    SumSeq([i \in DOMAIN imgs |->
        SumSeq([j \in DOMAIN imgs[i].processed_tokens |->
            Cardinality({k \in DOMAIN imgs[i].processed_tokens[j] :
                            imgs[i].processed_tokens[j][k] = w})])])

\* the final captions, one per row of L
RowCaptions == AllTexts(imgs, "final_captions")

\* C1: the vocabulary build_vocab returns holds exactly the words that occur
\* more than word_count_threshold times in the whole corpus, and 'UNK' if and
\* only if some word occurs at most that often; no word is in it twice.
C1_VocabExact ==
    VocabReturned =>
        LET t == params.word_count_threshold
        IN  /\ Range(vocab) =
                 {w \in TokenWords : Occurrences(w) > t}
                 \cup (IF \E w \in TokenWords : Occurrences(w) <= t
                         THEN {UNK} ELSE {})
            /\ Cardinality(Range(vocab)) = Len(vocab)

\* a word that occurs exactly t times is dropped next to one that occurs t+1
\* times and is kept, for a threshold t >= 1
C1_Witness ==
    /\ VocabReturned
    /\ params.word_count_threshold >= 1
    /\ \E w \in TokenWords :
          /\ Occurrences(w) = params.word_count_threshold
          /\ w \notin Range(vocab)
    /\ \E w \in TokenWords :
          /\ Occurrences(w) = params.word_count_threshold + 1
          /\ w \in Range(vocab)
    /\ UNK \in Range(vocab)

\* C2: every final caption is as long as the tokenized caption and holds, at
\* every position, the token when it occurs more than word_count_threshold
\* times in the corpus and 'UNK' otherwise; so no word that occurs at most
\* that often is left in a final caption.
C2_FinalCaptions ==
    VocabReturned =>
        \A i \in DOMAIN imgs :
            /\ Len(imgs[i].final_captions) = Len(imgs[i].processed_tokens)
            /\ \A j \in DOMAIN imgs[i].processed_tokens :
                 LET txt == imgs[i].processed_tokens[j]
                     cap == imgs[i].final_captions[j]
                 IN  /\ Len(cap) = Len(txt)
                     /\ \A k \in DOMAIN txt :
                          cap[k] = IF Occurrences(txt[k]) > params.word_count_threshold
                                     THEN txt[k] ELSE UNK
                     /\ \A k \in DOMAIN cap :
                          cap[k] = UNK
                          \/ Occurrences(cap[k]) > params.word_count_threshold

\* a final caption that keeps one token and replaces another
C2_Witness ==
    /\ VocabReturned
    /\ \E i \in DOMAIN imgs : \E j \in DOMAIN imgs[i].final_captions :
          LET txt == imgs[i].processed_tokens[j]
              cap == imgs[i].final_captions[j]
          IN  \E k, m \in DOMAIN cap :
                  /\ cap[k] = UNK /\ txt[k] # UNK
                  /\ cap[m] = txt[m]

\* C3: when encode_captions returns, the first span starts at row 1, the span
\* of record i is as long as its caption count, starts right after the span
\* of record i-1, the spans add up to the caption count M and to the number
\* of rows of L, and the rows of a span are the record's captions in order.
C3_Spans ==
    EncodeReturned =>
        /\ Len(label_start_ix) = Len(imgs)
        /\ Len(label_end_ix) = Len(imgs)
        /\ label_start_ix[1] = 1
        /\ \A i \in DOMAIN imgs :
             /\ Len(imgs[i].final_captions) >= 1
             /\ label_end_ix[i] - label_start_ix[i] + 1 = Len(imgs[i].final_captions)
             /\ i > 1 => label_start_ix[i] = label_end_ix[i - 1] + 1
             /\ \A j \in DOMAIN imgs[i].final_captions :
                  LET cap == imgs[i].final_captions[j]
                      row == L[label_start_ix[i] + j - 1]
                  IN  \A c \in DOMAIN row :
                        row[c] = IF c <= Len(cap) THEN wtoi[cap[c]] ELSE 0
        /\ SumSeq([i \in DOMAIN imgs |-> label_end_ix[i] - label_start_ix[i] + 1])
             = Len(RowCaptions)
        /\ Len(L) = Len(RowCaptions)

\* two records, the first with two captions that encode to different rows
C3_Witness ==
    /\ EncodeReturned
    /\ Len(imgs) = 2
    /\ Len(imgs[1].final_captions) = 2
    /\ label_start_ix[2] = 3
    /\ L[1] # L[2]
    /\ L[2] # L[3]

\* C4: when encode_captions returns, label_length[r] is the smaller of
\* max_length and the token count of the caption stored in row r, and is at
\* least 1.
C4_Lengths ==
    EncodeReturned =>
        /\ Len(label_length) = Len(L)
        /\ \A r \in DOMAIN L :
             /\ label_length[r] = Min(params.max_length, Len(RowCaptions[r]))
             /\ label_length[r] >= 1

\* a caption longer than max_length in the row before one that is not
C4_Witness ==
    /\ EncodeReturned
    /\ \E r \in DOMAIN L :
          /\ r + 1 \in DOMAIN L
          /\ Len(RowCaptions[r]) > params.max_length
          /\ Len(RowCaptions[r + 1]) <= params.max_length

\* every record has a caption and every caption a token
AllNonEmpty ==
    \A i \in DOMAIN imgs :
        /\ imgs[i].final_captions # <<>>
        /\ \A j \in DOMAIN imgs[i].final_captions : imgs[i].final_captions[j] # <<>>

\* C5: for max_length >= 1 a row holds the id of token k in column k for
\* every k below min(token count, max_length) and zero in every other
\* column; the tokens from max_length on are dropped and raise no error.
C5_Rows ==
    params.max_length >= 1 =>
        /\ EncodeReturned =>
             \A r \in DOMAIN L :
                 /\ Len(L[r]) = params.max_length
                 /\ \A c \in 1..params.max_length :
                      L[r][c] =
                        IF c <= Min(Len(RowCaptions[r]), params.max_length)
                          THEN wtoi[RowCaptions[r][c]] ELSE 0
        /\ (VocabReturned /\ AllNonEmpty /\ imgs # <<>> /\ pc = "failed")
             => h5.file # "absent"

\* a caption of more than max_length >= 2 tokens, encoded to a row of two
\* different ids
C5_Witness ==
    /\ EncodeReturned
    /\ params.max_length >= 2
    /\ \E r \in DOMAIN L :
          /\ Len(RowCaptions[r]) > params.max_length
          /\ L[r][1] # L[r][2]

\* the positions of the records assign_splits gave the split s
SplitSet(s) == {p \in DOMAIN imgs : imgs[p].split = s}

\* assign_splits has returned
SplitsAssigned ==
    \/ pc \in {"encode_captions", "create_h5", "images", "write_json", "done"}
    \/ pc = "failed" /\ err # "ZeroDivisionError"

\* C6: for num_val + num_test <= |Corpus|, the first num_val records in
\* corpus order are 'val', the next num_test are 'test', the rest are
\* 'train'; every record has one of the three and the sizes add up.
C6_Splits ==
    (SplitsAssigned /\ params.num_val + params.num_test <= Len(imgs)) =>
        /\ SplitSet("val") = 1..params.num_val
        /\ SplitSet("test") = (params.num_val + 1)..(params.num_val + params.num_test)
        /\ SplitSet("train") = (params.num_val + params.num_test + 1)..Len(imgs)
        /\ Cardinality(SplitSet("val")) = params.num_val
        /\ Cardinality(SplitSet("test")) = params.num_test
        /\ Cardinality(SplitSet("val")) + Cardinality(SplitSet("test"))
             + Cardinality(SplitSet("train")) = Len(imgs)

\* three records, one in each split
C6_Witness ==
    /\ SplitsAssigned
    /\ Len(imgs) = 3
    /\ params.num_val = 1
    /\ params.num_test = 1
    /\ imgs[1].split = "val" /\ imgs[2].split = "test" /\ imgs[3].split = "train"

\* C7: when num_val + num_test exceeds the corpus size the split sizes are
\* not silently clipped: no run completes with fewer than num_val 'val'
\* records or fewer than num_test 'test' records.
C7_NoSilentClip ==
    pc = "done" =>
        /\ Cardinality(SplitSet("val")) = params.num_val
        /\ Cardinality(SplitSet("test")) = params.num_test

\* the input holds a record without captions or a caption without words
HasOffender ==
    \E i \in DOMAIN imgs :
        \/ imgs[i].captions = <<>>
        \/ \E j \in DOMAIN imgs[i].captions : Tokenize(imgs[i].captions[j]) = <<>>

\* C8: a corpus with a record of zero captions, or with a caption that
\* tokenizes to zero words, never gets past encode_captions: no encoded
\* arrays are returned and nothing is written.
C8_OffenderAborts ==
    HasOffender =>
        /\ pc \notin {"create_h5", "images", "write_json", "done"}
        /\ L = <<>> /\ label_length = <<>>
        /\ h5 = NoFile /\ json = "absent"

\* encode_captions refuses a wordless caption that is the last caption of
\* the last record, every caption before it having words
C8_Witness ==
    /\ pc = "failed"
    /\ err = "AssertionError: some caption had no words"
    /\ Len(imgs) = 2
    /\ Len(imgs[1].processed_tokens) = 1 /\ imgs[1].processed_tokens[1] # <<>>
    /\ Len(imgs[2].captions) = 1 /\ imgs[2].captions[1] # <<>>
    /\ imgs[2].processed_tokens[1] = <<>>

\* C9: a run that ends in a failure leaves no output behind: neither the
\* hdf5 file nor the json file has been created.
C9_NoPartialOutput ==
    pc = "failed" => h5.file = "absent" /\ json = "absent"

\* no word was dropped
NothingDropped ==
    \A w \in TokenWords : Occurrences(w) > params.word_count_threshold

\* C10: wtoi and itow are inverse bijections between the vocabulary and
\* 1..|vocabulary|; every token of every final caption is a key of wtoi and
\* the lookup never fails; the first label_length[r] ids of row r decode to
\* the first label_length[r] tokens of its final caption; when no word is
\* dropped 'UNK' has no id and no row refers to it.
C10_Tables ==
    VocabReturned =>
        /\ DOMAIN wtoi = Range(vocab)
        /\ DOMAIN itow = 1..Len(vocab)
        /\ {wtoi[w] : w \in DOMAIN wtoi} = 1..Cardinality(Range(vocab))
        /\ \A w \in DOMAIN wtoi : wtoi[w] \in DOMAIN itow /\ itow[wtoi[w]] = w
        /\ \A i \in DOMAIN itow : itow[i] \in DOMAIN wtoi /\ wtoi[itow[i]] = i
        /\ \A r \in DOMAIN RowCaptions : Range(RowCaptions[r]) \subseteq DOMAIN wtoi
        /\ err # "KeyError"
        /\ EncodeReturned =>
             \A r \in DOMAIN L : \A k \in 1..label_length[r] :
                 /\ L[r][k] \in DOMAIN itow
                 /\ itow[L[r][k]] = RowCaptions[r][k]
        /\ NothingDropped =>
             /\ UNK \notin DOMAIN wtoi
             /\ UNK \notin Range(itow)
             /\ \A r \in DOMAIN L : \A c \in DOMAIN L[r] :
                  L[r][c] # 0 => itow[L[r][c]] # UNK

\* a caption cut to max_length whose row decodes to a kept word and 'UNK'
C10_Witness ==
    /\ EncodeReturned
    /\ Len(vocab) >= 2
    /\ \E r \in DOMAIN L :
          /\ Len(RowCaptions[r]) > params.max_length
          /\ \E k, m \in 1..label_length[r] :
                itow[L[r][k]] = UNK /\ itow[L[r][m]] # UNK

====
